---- MODULE Spec2Model ----
(***************************************************************************)
(* CheerDad.app backend (src/main.py) and its embedded web client.         *)
(*                                                                         *)
(* State: the schedule_sessions table, the wall clock, the in-flight       *)
(* /upload-schedule requests (one position per store call of               *)
(* save_schedule), the last /query-schedule and /create-checkout-session   *)
(* exchanges, and the schedule part of the web client.                     *)
(***************************************************************************)
EXTENDS Integers, Sequences, FiniteSets, TLC

\* ------------------------------------------------------------------ bounds
MaxUploads == 2        \* /upload-schedule requests started in one behaviour
MaxTicks == 2          \* clock advances in one behaviour
MaxPending == 2        \* recordings of one flow of the web client awaiting their responses
MaxRuns == 6           \* Streamlit script runs in one behaviour
MaxAudio == 2          \* /upload requests started in one behaviour

\* --------------------------------------------------------------- constants
TicksPerSecond == 2    \* clock resolution of the model: half seconds
RetentionHours == 72
MinTextLen == 50
FREE_LIMIT == 7        \* const FREE_LIMIT of the web client
StFreeLimit == 3       \* the free uses of the Streamlit front end
RetentionTicks == RetentionHours * 3600 * TicksPerSecond

Reqs == {1, 2}         \* request slots: two uploads can be in flight at once

\* ------------------------------------------------------------------ values
\* Python None / JS null / JS undefined / the string "undefined" / ids.
None == [kind |-> "none", n |-> 0]
JsNull == [kind |-> "null", n |-> 0]
JsUndefined == [kind |-> "undefined", n |-> 0]
StrUndefined == [kind |-> "str", n |-> 0]

\* Truthiness as Python's `if x:` and JS's `if (x)` apply it to these values:
\* None, null and undefined are falsy, every non-empty string is truthy.
Truthy(v) == v.kind \notin {"none", "null", "undefined"}

\* String(v) as localStorage.setItem applies it to its value argument.
JsToString(v) == IF v.kind = "undefined" THEN StrUndefined ELSE v

\* ------------------------------------------------------------------- texts
\* A text is a sequence of one-character strings; NoneText stands for Python's
\* None where a text is expected and differs from every text.
NoneText == <<"None">>

\* `if not text` in Python: None and the empty string are falsy
FalsyText(text) == text = NoneText \/ text = <<>>

Rep(c, k) == [i \in 1..k |-> c]

IsSpace(c) == c \in {" ", "\n", "\t"}

\* str.strip(): drop leading and trailing whitespace
PyStrip(s) ==
    LET lead == CHOOSE k \in 0..Len(s) :
                    /\ \A i \in 1..k : IsSpace(s[i])
                    /\ k = Len(s) \/ ~IsSpace(s[k + 1])
        trail == CHOOSE k \in 0..Len(s) :
                    /\ \A i \in 1..k : IsSpace(s[Len(s) + 1 - i])
                    /\ k = Len(s) \/ ~IsSpace(s[Len(s) - k])
    IN IF lead = Len(s) THEN <<>> ELSE SubSeq(s, lead + 1, Len(s) - trail)

ContainsSub(s, sub) ==
    \E i \in 1..Len(s) :
        /\ i + Len(sub) - 1 <= Len(s)
        /\ SubSeq(s, i, i + Len(sub) - 1) = sub

\* str.endswith(suffix)
EndsWith(s, suffix) ==
    /\ Len(s) >= Len(suffix)
    /\ SubSeq(s, Len(s) - Len(suffix) + 1, Len(s)) = suffix

DotPdf == <<".", "p", "d", "f">>

\* extract_pdf_text: per page the text layer if it has non-blank text,
\* otherwise the OCR output; concatenated, then stripped.
RECURSIVE FullText(_)
FullText(pages) ==
    IF pages = <<>> THEN <<>>
    ELSE LET page == Head(pages)
             piece == IF PyStrip(page.text) # <<>> THEN page.text ELSE page.ocr
         IN piece \o FullText(Tail(pages))

extract_pdf_text(doc) == PyStrip(FullText(doc.pages))

LowTextNever(text) == FALSE

LowTextOffByOne(text) == FalsyText(text) \/ Len(text) <= MinTextLen

\* the data-quality gate of upload_schedule (line 614)
LowText(text) == FalsyText(text) \/ Len(text) < MinTextLen

\* f"schedule_{int(time.time())}"
SessionIdAt(t) == [kind |-> "schedule", n |-> t \div TicksPerSecond]

\* ------------------------------------------------------------------ inputs
Page(text, ocr) == [text |-> text, ocr |-> ocr]

DocExact == [ok |-> TRUE, pages |-> <<Page(Rep("a", 50), <<>>)>>]
DocShort == [ok |-> TRUE, pages |-> <<Page(Rep("c", 49) \o <<" ", " ">>, <<>>)>>]
DocBlank == [ok |-> TRUE, pages |-> <<Page(<<" ", "\n">>, <<>>)>>]
DocScanned == [ok |-> TRUE, pages |-> <<Page(Rep("d", 30), <<>>), Page(<<" ">>, Rep("e", 20) \o <<"\n">>)>>]
DocCorrupt == [ok |-> FALSE, pages |-> <<>>]

Docs == {DocExact, DocShort, DocBlank, DocScanned, DocCorrupt}

NamePdf == <<"s">> \o DotPdf
NameUpper == <<"s", ".", "P", "D", "F">>
NameTxt == <<"s", ".", "p", "d", "f", ".", "t", "x", "t">>

\* the uploaded files: every document under a .pdf name, and one document
\* under names that do not end in ".pdf"
File(filename, doc) == [filename |-> filename, doc |-> doc]

Files == {File(NamePdf, d) : d \in Docs} \cup {File(NameUpper, DocExact), File(NameTxt, DocExact)}

\* ------------------------------------------------------------------- state
VARIABLES
    now,        \* wall clock, in ticks
    ticks,      \* clock advances so far
    table,      \* schedule_sessions: a set of rows
    started,    \* /upload-schedule requests started so far
    req,        \* per slot: the request being handled and its position
    client,     \* schedule state of the web client
    lastQuery,  \* the last /query-schedule exchange
    lastCheckout, \* the last /create-checkout-session exchange
    env,        \* the price ids read from the environment at start-up
    email_signups, \* the entitlement table
    lastWebhook, \* the last /webhook exchange
    sweepDone,  \* clock of the latest sweep of a completed save_schedule, -1 if none
    last,       \* the step taken last, with the response it delivered
    web,        \* usage state of the web client: counter, localStorage, recorders
    st,         \* the Streamlit session: usage_count and the last script run
    audio,      \* the in-flight /upload requests and the last response
    disk        \* the working directory of the server: temp files

vars == <<now, ticks, table, started, req, client, lastQuery, lastCheckout,
          env, email_signups, lastWebhook, sweepDone, last, web, st, audio, disk>>

\* the variables of the payment endpoints
payVars == <<lastCheckout, env, email_signups, lastWebhook>>

\* the usage counters of the two front ends and the /upload endpoint
usageVars == <<web, st>>
audioVars == <<audio, disk>>

IdleReq == [pc |-> "idle", serial |-> 0, filename |-> <<>>, doc |-> DocCorrupt,
            old_session_id |-> None, form_old |-> None, fromClient |-> FALSE,
            extracted_text |-> <<>>, session_id |-> None, cutoff |-> 0,
            sweptAt |-> 0, swept |-> 0, status |-> 0, detail |-> "", wrapped |-> 0]

\* the step taken last; rq is the request it answered, IdleReq if none
Step(act, r, rq) == [act |-> act, r |-> r, rq |-> rq]

NoRow == [uid |-> 0, session_id |-> None, extracted_text |-> <<>>, created_at |-> 0]

\* os.getenv(...) of an unset variable is None
NoPrice == "None"

EnvAllSet == [STRIPE_MONTHLY_PRICE_ID |-> "price_monthly", STRIPE_ANNUAL_PRICE_ID |-> "price_annual"]
EnvNoAnnual == [STRIPE_MONTHLY_PRICE_ID |-> "price_monthly", STRIPE_ANNUAL_PRICE_ID |-> NoPrice]

NoEmail == "None"

\* the script state of a freshly loaded page with empty localStorage:
\* usage = parseInt(localStorage.getItem('translations_used') || 0)
WebStart == [usage |-> 0, ls_used |-> 0, ls_paid |-> FALSE,
             isRecording |-> FALSE, scheduleIsRecording |-> FALSE,
             pendingT |-> 0, pendingS |-> 0,
             checkoutOpen |-> FALSE, resultShown |-> FALSE, allowed |-> TRUE]

\* a new Streamlit session: usage_count = 0, no script run with audio yet
StStart == [usage_count |-> 0, runs |-> 0,
            run |-> [audio |-> FALSE, is_paid |-> FALSE, before |-> 0,
                     transcribed |-> FALSE, translated |-> FALSE, warning |-> FALSE,
                     raised |-> ""]]

\* no bytes: the content of a file just created or truncated
NoBytes == <<>>

\* what the transcription provider returns for the bytes it is sent
Whisper(content) == [heard |-> content]

IdleAudio == [pc |-> "idle", serial |-> 0, bytes |-> NoBytes, temp_filename |-> 0,
              fd |-> 0, status |-> 0, transcription |-> Whisper(NoBytes), raised |-> ""]

AudioStart == [started |-> 0, reqs |-> [r \in Reqs |-> IdleAudio], last |-> IdleAudio]

\* a directory without temp files: file name -> [inode, content]
DiskEmpty == <<>>

\* the schedule state of a freshly loaded page with empty localStorage; prev
\* is the session id the last resetSchedule dropped (history, not a variable
\* of the script)
ClientStart == [currentSessionId |-> JsNull, ls_session |-> JsNull, step |-> 1,
                modalOpen |-> FALSE, uploadStatus |-> "hidden", slot |-> 0,
                prev |-> JsNull]

\* a page loaded by a returning user: localStorage holds the id of a schedule
\* uploaded on an earlier visit
ClientReturning == [ClientStart EXCEPT !.currentSessionId = SessionIdAt(0),
                                       !.ls_session = SessionIdAt(0)]

InitWith(e, c, t) ==
    /\ web = WebStart
    /\ st = StStart
    /\ audio = AudioStart
    /\ disk = DiskEmpty
    /\ env = e
    /\ email_signups = {}
    /\ lastWebhook = [status |-> 0, signatureOk |-> FALSE, type |-> "", email |-> NoEmail,
                      upserted |-> FALSE]
    /\ now = 0
    /\ ticks = 0
    /\ table = t
    /\ started = 0
    /\ req = [r \in Reqs |-> IdleReq]
    /\ client = c
    /\ lastQuery = [session_id |-> None, status |-> 0, found |-> FALSE, lookup |-> "none",
                    providerCalled |-> FALSE, schedule_text |-> NoneText]
    /\ lastCheckout = [plan_type |-> "", status |-> 0, body |-> "", error |-> "",
                       stripeCalled |-> FALSE]
    /\ sweepDone = -1
    /\ last = Step("init", 0, IdleReq)

InitBut(e) == InitWith(e, ClientStart, {})

Init == InitBut(EnvAllSet)

\* the payment endpoints are started with either environment
PayInit == \E e \in {EnvAllSet, EnvNoAnnual} : InitBut(e)

\* the web client of a returning user
WebInit == InitWith(EnvAllSet, ClientReturning, {})

\* a schedule uploaded one second before the clock of the model starts
PriorText == Rep("p", MinTextLen)
PriorRow == [uid |-> 0, session_id |-> SessionIdAt(0 - TicksPerSecond),
             extracted_text |-> PriorText, created_at |-> 0 - TicksPerSecond]

\* the server with that schedule in the session table
ReplaceInit == InitWith(EnvAllSet, ClientStart, {PriorRow})

\* two more schedules of earlier uploads: one from two seconds before the
\* start, and one that is older than the retention window at the start; no
\* sweep since has had a cutoff later than its creation
YoungRow == [uid |-> 0 - 1, session_id |-> SessionIdAt(0 - 2 * TicksPerSecond),
             extracted_text |-> Rep("y", MinTextLen),
             created_at |-> 0 - 2 * TicksPerSecond]
ExpiredRow == [uid |-> 0 - 2, session_id |-> SessionIdAt(0 - RetentionTicks - TicksPerSecond),
               extracted_text |-> Rep("x", MinTextLen),
               created_at |-> 0 - RetentionTicks - TicksPerSecond]

\* the server with the three schedules in the session table
SaveInit == InitWith(EnvAllSet, ClientStart, {PriorRow, YoungRow, ExpiredRow})

\* ------------------------------------------------------------ session store
DeleteEverySession(t, sid) == {}

\* .delete().eq('session_id', sid)
DeleteBySessionId(t, sid) == {row \in t : row.session_id # sid}

DeleteNewerThan(t, cutoff) == {row \in t : ~(row.created_at > cutoff)}

\* .delete().lt('created_at', cutoff)
DeleteOlderThan(t, cutoff) == {row \in t : ~(row.created_at < cutoff)}

\* .insert({...}); created_at is the column default, the insertion time
InsertRow(t, uid, sid, text, at) ==
    t \cup {[uid |-> uid, session_id |-> sid, extracted_text |-> text, created_at |-> at]}

\* cutoff = datetime.now(timezone.utc) - timedelta(hours=72)
Cutoff(t) == t - RetentionTicks

\* .select('extracted_text').eq('session_id', sid): the matching rows
SelectBySessionId(t, sid) == {row \in t : row.session_id = sid}

\* get_schedule: the text of result.data[0], or None when no row matches.
\* The query has no ORDER BY, so with several matching rows any of them can
\* come first: the set of rows the call can answer with.
get_schedule_rows(t, sid) ==
    IF SelectBySessionId(t, sid) # {} THEN SelectBySessionId(t, sid) ELSE {NoRow}

get_schedule(t, sid) ==
    {IF row = NoRow THEN NoneText ELSE row.extracted_text : row \in get_schedule_rows(t, sid)}

\* ------------------------------------------------------------------ /upload
\* the recordings callers send
AudioA == <<"a", "a">>
AudioB == <<"b">>
Audios == {AudioA, AudioB}

\* f"temp_{int(time.time())}.wav": the file is named by the second
TempName(t) == t \div TicksPerSecond

\* open(name, "wb"): an existing file is truncated and keeps its inode, a
\* missing one is created with a new inode
OpenWb(d, name, inode) ==
    IF name \in DOMAIN d
    THEN [d EXCEPT ![name].content = NoBytes]
    ELSE [n \in DOMAIN d \cup {name} |->
             IF n = name THEN [inode |-> inode, content |-> NoBytes] ELSE d[n]]

\* write(bytes) at offset 0 through a descriptor of inode fd, then close; a
\* file that was unlinked meanwhile has no name any more and the bytes are
\* lost with it
WriteFd(d, fd, bytes) ==
    [n \in DOMAIN d |->
        IF d[n].inode = fd
        THEN [d[n] EXCEPT !.content =
                 bytes \o SubSeq(d[n].content, Len(bytes) + 1, Len(d[n].content))]
        ELSE d[n]]

\* os.remove(name)
Unlink(d, name) == [n \in DOMAIN d \ {name} |-> d[n]]

\* the handler answers with rq and the slot is free again
AudioRespond(r, rq) ==
    audio' = [audio EXCEPT !.reqs[r] = IdleAudio, !.last = rq]

AudioContinue(r, rq) ==
    audio' = [audio EXCEPT !.reqs[r] = rq, !.last = IdleAudio]

\* an exception leaves the handler uncaught: 500
AudioRaise(rq, what) == [rq EXCEPT !.pc = "done", !.status = 500, !.raised = what]

\* upload_audio lines 598-599: the name, and open(temp_filename, "wb")
upload_audio(r, bytes) ==
    LET name == TempName(now)
        serial == audio.started + 1
        opened == OpenWb(disk, name, serial)
    IN /\ audio.reqs[r].pc = "idle"
       /\ \A q \in Reqs : q < r => audio.reqs[q].pc # "idle"
       /\ audio.started < MaxAudio
       /\ disk' = opened
       /\ audio' = [audio EXCEPT !.started = serial,
                                 !.last = IdleAudio,
                                 !.reqs[r] = [IdleAudio EXCEPT !.pc = "write",
                                                               !.serial = serial,
                                                               !.bytes = bytes,
                                                               !.temp_filename = name,
                                                               !.fd = opened[name].inode]]
       /\ last' = Step("upload_audio", r, IdleReq)
       /\ UNCHANGED <<now, ticks, table, started, req, client, lastQuery, sweepDone>>
       /\ UNCHANGED payVars
       /\ UNCHANGED usageVars

UploadAudio(r) == \E bytes \in Audios : upload_audio(r, bytes)

\* line 600: buffer.write(await file.read()) and the end of the with block
WriteTemp(r) ==
    /\ audio.reqs[r].pc = "write"
    /\ disk' = WriteFd(disk, audio.reqs[r].fd, audio.reqs[r].bytes)
    /\ AudioContinue(r, [audio.reqs[r] EXCEPT !.pc = "transcribe"])
    /\ last' = Step("WriteTemp", r, IdleReq)
    /\ UNCHANGED <<now, ticks, table, started, req, client, lastQuery, sweepDone>>
    /\ UNCHANGED payVars
    /\ UNCHANGED usageVars

\* lines 601-602: open(temp_filename, "rb") and the transcription call, which
\* reads the file; either can raise
TranscribeTemp(r) ==
    LET rq == audio.reqs[r]
    IN /\ rq.pc = "transcribe"
       /\ IF rq.temp_filename \notin DOMAIN disk
          THEN AudioRespond(r, AudioRaise(rq, "FileNotFoundError"))
          ELSE \E ok \in BOOLEAN :
                  IF ok
                  THEN AudioContinue(r, [rq EXCEPT !.pc = "remove",
                                           !.transcription = Whisper(disk[rq.temp_filename].content)])
                  ELSE AudioRespond(r, AudioRaise(rq, "provider"))
       /\ last' = Step("TranscribeTemp", r, IdleReq)
       /\ UNCHANGED <<now, ticks, table, started, req, client, lastQuery, sweepDone>>
       /\ UNCHANGED payVars
       /\ UNCHANGED <<usageVars, disk>>

\* lines 603-604: os.remove(temp_filename) and the response
RemoveTemp(r) ==
    LET rq == audio.reqs[r]
    IN /\ rq.pc = "remove"
       /\ IF rq.temp_filename \notin DOMAIN disk
          THEN /\ disk' = disk
               /\ AudioRespond(r, AudioRaise(rq, "FileNotFoundError"))
          ELSE /\ disk' = Unlink(disk, rq.temp_filename)
               /\ AudioRespond(r, [rq EXCEPT !.pc = "done", !.status = 200])
       /\ last' = Step("RemoveTemp", r, IdleReq)
       /\ UNCHANGED <<now, ticks, table, started, req, client, lastQuery, sweepDone>>
       /\ UNCHANGED payVars
       /\ UNCHANGED usageVars

\* ---------------------------------------------------------- /upload-schedule
\* `except Exception as e: raise HTTPException(status_code=500, detail=str(e))`
\* wrapped is the status of the HTTPException that was caught, 0 for any
\* other exception.
ExceptHandler(rq, wrapped, detail) ==
    [rq EXCEPT !.pc = "done", !.status = 500, !.wrapped = wrapped, !.detail = detail]

\* The handler answers with rq: a direct caller has the response at once and
\* the slot is free again, the web client's fetch resolves in a later step.
Respond(act, r, rq) ==
    /\ req' = [req EXCEPT ![r] = IF rq.fromClient THEN rq ELSE IdleReq]
    /\ last' = Step(act, r, rq)

\* The handler goes on to its next store call.
Continue(act, r, rq) ==
    /\ req' = [req EXCEPT ![r] = rq]
    /\ last' = Step(act, r, IdleReq)

FirstStoreCallSkipsDelete(old_session_id) == "sweep"

\* save_schedule lines 35-36: `if old_session_id:` decides whether the
\* delete of the old session is the first store call
FirstStoreCall(old_session_id) ==
    IF Truthy(old_session_id) THEN "delete_old" ELSE "sweep"

\* lines 609-616: file-name check, extraction, data-quality gate, new id
upload_schedule(r, filename, doc, old, form_old, fromClient) ==
    LET rq == [IdleReq EXCEPT !.serial = started + 1, !.filename = filename,
                              !.doc = doc, !.old_session_id = old,
                              !.form_old = form_old, !.fromClient = fromClient]
        text == extract_pdf_text(doc)
    IN /\ req[r].pc = "idle"
       /\ \A q \in Reqs : q < r => req[q].pc # "idle"
       /\ started < MaxUploads
       /\ started' = started + 1
       /\ IF ~EndsWith(filename, DotPdf)
          THEN Respond("upload_schedule", r,
                       [rq EXCEPT !.pc = "done", !.status = 400, !.detail = "only_pdf"])
          ELSE IF ~doc.ok
          THEN Respond("upload_schedule", r, ExceptHandler(rq, 0, "extract_error"))
          ELSE IF LowText(text)
          THEN Respond("upload_schedule", r, ExceptHandler(rq, 400, "low_text"))
          ELSE Continue("upload_schedule", r,
                        [rq EXCEPT !.pc = FirstStoreCall(old),
                                   !.extracted_text = text,
                                   !.session_id = SessionIdAt(now)])

\* what a caller puts in the old_session_id query parameter: nothing, or the
\* id of a session that exists when the request is sent
OldIdChoices ==
    {None} \cup {row.session_id : row \in table}

\* a direct caller of the endpoint
ApiUpload(r) ==
    /\ \E file \in Files, old \in OldIdChoices :
          upload_schedule(r, file.filename, file.doc, old, None, FALSE)
    /\ UNCHANGED <<now, ticks, table, client, lastQuery, sweepDone>>
    /\ UNCHANGED payVars
    /\ UNCHANGED <<usageVars, audioVars>>

\* a caller replacing the schedule of PriorRow: a readable PDF and the id of
\* the prior session in the query string
ReplaceUpload(r) ==
    /\ \E doc \in {DocExact, DocScanned} :
          upload_schedule(r, NamePdf, doc, PriorRow.session_id, None, FALSE)
    /\ UNCHANGED <<now, ticks, table, client, lastQuery, sweepDone>>
    /\ UNCHANGED payVars
    /\ UNCHANGED <<usageVars, audioVars>>

\* save_schedule line 36
DeleteOld(r) ==
    /\ req[r].pc = "delete_old"
    /\ \E ok \in BOOLEAN :
          IF ok
          THEN /\ table' = DeleteBySessionId(table, req[r].old_session_id)
               /\ Continue("DeleteOld", r, [req[r] EXCEPT !.pc = "sweep"])
          ELSE /\ table' = table
               /\ Respond("DeleteOld", r, ExceptHandler(req[r], 0, "store_error"))
    /\ UNCHANGED <<now, ticks, started, client, lastQuery, sweepDone>>
    /\ UNCHANGED payVars
    /\ UNCHANGED <<usageVars, audioVars>>

\* save_schedule lines 39-40
Sweep(r) ==
    /\ req[r].pc = "sweep"
    /\ \E ok \in BOOLEAN :
          IF ok
          THEN /\ table' = DeleteOlderThan(table, Cutoff(now))
               /\ Continue("Sweep", r, [req[r] EXCEPT !.pc = "insert",
                                                      !.cutoff = Cutoff(now),
                                                      !.sweptAt = now,
                                                      !.swept = Cardinality(table \ table')])
          ELSE /\ table' = table
               /\ Respond("Sweep", r, ExceptHandler(req[r], 0, "store_error"))
    /\ UNCHANGED <<now, ticks, started, client, lastQuery, sweepDone>>
    /\ UNCHANGED payVars
    /\ UNCHANGED <<usageVars, audioVars>>

\* save_schedule lines 42-45 and the return of upload_schedule (line 618)
Insert(r) ==
    /\ req[r].pc = "insert"
    /\ \E ok \in BOOLEAN :
          IF ok
          THEN /\ table' = InsertRow(table, req[r].serial, req[r].session_id,
                                     req[r].extracted_text, now)
               /\ Respond("Insert", r, [req[r] EXCEPT !.pc = "done", !.status = 200])
               /\ sweepDone' = IF req[r].sweptAt > sweepDone THEN req[r].sweptAt ELSE sweepDone
          ELSE /\ table' = table
               /\ Respond("Insert", r, ExceptHandler(req[r], 0, "store_error"))
               /\ sweepDone' = sweepDone
    /\ UNCHANGED <<now, ticks, started, client, lastQuery>>
    /\ UNCHANGED payVars
    /\ UNCHANGED <<usageVars, audioVars>>

\* the JSON body of the response: {"session_id", "message"} on success,
\* {"detail"} for an HTTPException
ResponseBody(rq) ==
    [session_id |-> IF rq.status = 200 THEN rq.session_id ELSE JsUndefined,
     detail |-> IF rq.status = 200 THEN "" ELSE rq.detail,
     error |-> JsUndefined]

\* the response to a fetch that the web client has given up is dropped
DropResponse(r) ==
    /\ req[r].pc = "done"
    /\ ~req[r].fromClient
    /\ req' = [req EXCEPT ![r] = IdleReq]
    /\ last' = Step("DropResponse", r, IdleReq)
    /\ UNCHANGED <<now, ticks, table, started, client, lastQuery, sweepDone>>
    /\ UNCHANGED payVars
    /\ UNCHANGED <<usageVars, audioVars>>

\* ----------------------------------------------------------- /query-schedule
\* the session ids a caller asks about: the ids of the first and of the
\* current second (issued or not, replaced or swept) and every id in the table
QueryIds ==
    {SessionIdAt(0), SessionIdAt(now)} \cup {row.session_id : row \in table}

QueryOutcomeUnchecked(schedule_text, providerOk) ==
    [status |-> IF providerOk THEN 200 ELSE 500, providerCalled |-> TRUE]

\* the handler's decision once get_schedule has returned schedule_text:
\* 404 before any provider call when the text is falsy, otherwise the
\* chat-completion call, whose exception is not caught (500)
QueryOutcome(schedule_text, providerOk) ==
    IF FalsyText(schedule_text)
    THEN [status |-> 404, providerCalled |-> FALSE]
    ELSE [status |-> IF providerOk THEN 200 ELSE 500, providerCalled |-> TRUE]

\* query_schedule, lines 623-643; a failing store call in get_schedule is
\* not caught either and ends the request with 500
query_schedule(sid, storeOk, providerOk) ==
    /\ IF ~storeOk
       THEN lastQuery' = [session_id |-> sid, status |-> 500,
                          found |-> SelectBySessionId(table, sid) # {},
                          lookup |-> "raised",
                          providerCalled |-> FALSE, schedule_text |-> NoneText]
       ELSE \E schedule_text \in get_schedule(table, sid) :
               lastQuery' = [session_id |-> sid,
                             status |-> QueryOutcome(schedule_text, providerOk).status,
                             found |-> SelectBySessionId(table, sid) # {},
                             lookup |-> "returned",
                             providerCalled |-> QueryOutcome(schedule_text, providerOk).providerCalled,
                             schedule_text |-> schedule_text]
    /\ last' = Step("query_schedule", 0, IdleReq)
    /\ UNCHANGED <<now, ticks, table, started, req, client, sweepDone>>
    /\ UNCHANGED payVars
    /\ UNCHANGED <<usageVars, audioVars>>

QuerySchedule ==
    \E sid \in QueryIds, raises \in {"nothing", "store", "provider"} :
        query_schedule(sid, raises # "store", raises # "provider")

\* --------------------------------------------------------------- web client
\* openScheduleModal, lines 424-435
openScheduleModal ==
    /\ client' = [client EXCEPT !.step = IF Truthy(client.currentSessionId) THEN 2 ELSE 1,
                                !.modalOpen = TRUE]
    /\ last' = Step("openScheduleModal", 0, IdleReq)
    /\ UNCHANGED <<now, ticks, table, started, req, lastQuery, sweepDone>>
    /\ UNCHANGED payVars
    /\ UNCHANGED <<usageVars, audioVars>>

\* closeModal('scheduleModal'), line 522
closeModal ==
    /\ client.modalOpen
    /\ client' = [client EXCEPT !.modalOpen = FALSE]
    /\ last' = Step("closeModal", 0, IdleReq)
    /\ UNCHANGED <<now, ticks, table, started, req, lastQuery, sweepDone>>
    /\ UNCHANGED payVars
    /\ UNCHANGED <<usageVars, audioVars>>

\* handlePDFUpload up to the fetch, lines 437-449: the file input is in
\* scheduleStep1; the old id travels as a multipart form field, the query
\* string of the request is empty
handlePDFUpload(r) ==
    /\ client.modalOpen /\ client.step = 1
    /\ client.slot = 0
    /\ \E file \in Files :
          upload_schedule(r, file.filename, file.doc, None,
                          IF Truthy(client.currentSessionId)
                          THEN client.currentSessionId ELSE None,
                          TRUE)
    /\ client' = [client EXCEPT !.uploadStatus = "uploading", !.slot = r]
    /\ UNCHANGED <<now, ticks, table, lastQuery, sweepDone>>
    /\ UNCHANGED payVars
    /\ UNCHANGED <<usageVars, audioVars>>

\* handlePDFUpload after the fetch, lines 450-456
handlePDFUploadResponse(r) ==
    /\ client.slot = r
    /\ req[r].pc = "done"
    /\ LET data == ResponseBody(req[r])
       IN IF Truthy(data.error)
          THEN client' = [client EXCEPT !.uploadStatus = "error", !.slot = 0]
          ELSE client' = [client EXCEPT !.currentSessionId = data.session_id,
                                        !.ls_session = JsToString(data.session_id),
                                        !.step = 2,
                                        !.slot = 0]
    /\ req' = [req EXCEPT ![r] = IdleReq]
    /\ last' = Step("handlePDFUploadResponse", r, req[r])
    /\ UNCHANGED <<now, ticks, table, started, lastQuery, sweepDone>>
    /\ UNCHANGED payVars
    /\ UNCHANGED <<usageVars, audioVars>>

\* the catch branch, lines 457-459: the fetch was rejected; the server still
\* finishes the request
handlePDFUploadFailed(r) ==
    /\ client.slot = r
    /\ client' = [client EXCEPT !.uploadStatus = "failed", !.slot = 0]
    /\ req' = [req EXCEPT ![r].fromClient = FALSE]
    /\ last' = Step("handlePDFUploadFailed", r, IdleReq)
    /\ UNCHANGED <<now, ticks, table, started, lastQuery, sweepDone>>
    /\ UNCHANGED payVars
    /\ UNCHANGED <<usageVars, audioVars>>

\* resetSchedule, lines 509-519: reachable from the "New PDF" button of
\* scheduleStep2 and from the scheduleLoaded panel
resetSchedule ==
    /\ (client.modalOpen /\ client.step = 2) \/ Truthy(client.currentSessionId)
    /\ client' = [client EXCEPT !.currentSessionId = JsNull, !.ls_session = JsNull,
                                !.step = 1, !.uploadStatus = "hidden",
                                !.modalOpen = FALSE,
                                !.prev = client.currentSessionId]
    /\ last' = Step("resetSchedule", 0, IdleReq)
    /\ UNCHANGED <<now, ticks, table, started, req, lastQuery, sweepDone>>
    /\ UNCHANGED payVars
    /\ UNCHANGED <<usageVars, audioVars>>

\* the query string of a page load: none, ?success=true, ?cancel=true
UrlParams == {"", "success", "cancel"}

\* the script's start on a page load, lines 302-310 and 574-584: usage is
\* read from localStorage first, the success branch writes localStorage
\* afterwards and leaves the variable usage as it was read
WebLoad(w, q) ==
    [WebStart EXCEPT !.usage = w.ls_used,
                     !.ls_used = IF q = "success" THEN 0 ELSE w.ls_used,
                     !.ls_paid = IF q = "success" THEN TRUE ELSE w.ls_paid]

\* a page load, line 309: localStorage.getItem('schedule_session_id') || null;
\* a fetch of the previous page is abandoned
PageLoad ==
    /\ client' = [currentSessionId |-> IF Truthy(client.ls_session)
                                       THEN client.ls_session ELSE JsNull,
                  ls_session |-> client.ls_session, step |-> 1, modalOpen |-> FALSE,
                  uploadStatus |-> "hidden", slot |-> 0, prev |-> JsNull]
    /\ req' = [r \in Reqs |-> IF client.slot = r
                               THEN [req[r] EXCEPT !.fromClient = FALSE] ELSE req[r]]
    /\ \E q \in UrlParams : web' = WebLoad(web, q)
    /\ last' = Step("PageLoad", 0, IdleReq)
    /\ UNCHANGED <<now, ticks, table, started, lastQuery, sweepDone>>
    /\ UNCHANGED payVars
    /\ UNCHANGED <<st, audioVars>>

\* ------------------------------------------------- web client: usage gate
\* `if (usage >= FREE_LIMIT) { createCheckout('monthly'); return; }`,
\* lines 335 and 465: the test of both record buttons
GateAllows(w) == ~(w.usage >= FREE_LIMIT)

\* updateUsage, lines 389-391
updateUsage(w) == [w EXCEPT !.usage = w.usage + 1, !.ls_used = w.usage + 1]

\* recordBtn.onclick, lines 334-352: the gate, then start or stop; stopping
\* the recorder starts uploadAudio
recordBtn_onclick ==
    /\ ~web.resultShown
    /\ web.isRecording => web.pendingT < MaxPending
    /\ web' = IF ~GateAllows(web)
              THEN [web EXCEPT !.allowed = FALSE, !.checkoutOpen = TRUE]
              ELSE IF ~web.isRecording
              THEN [web EXCEPT !.allowed = TRUE, !.isRecording = TRUE]
              ELSE [web EXCEPT !.allowed = TRUE, !.isRecording = FALSE,
                               !.pendingT = web.pendingT + 1]
    /\ last' = Step("recordBtn_onclick", 0, IdleReq)
    /\ UNCHANGED <<now, ticks, table, started, req, client, lastQuery, sweepDone>>
    /\ UNCHANGED payVars
    /\ UNCHANGED <<st, audioVars>>

\* uploadAudio after its two fetches, lines 361-373: the result is shown and
\* counted, or the catch branch runs
uploadAudioResponse ==
    /\ web.pendingT > 0
    /\ \E ok \in BOOLEAN :
          web' = IF ok
                 THEN [updateUsage(web) EXCEPT !.pendingT = web.pendingT - 1,
                                               !.resultShown = TRUE]
                 ELSE [web EXCEPT !.pendingT = web.pendingT - 1]
    /\ last' = Step("uploadAudioResponse", 0, IdleReq)
    /\ UNCHANGED <<now, ticks, table, started, req, client, lastQuery, sweepDone>>
    /\ UNCHANGED payVars
    /\ UNCHANGED <<st, audioVars>>

\* resetUI, lines 407-411: the record button is shown again
resetUI ==
    /\ web.resultShown
    /\ web' = [web EXCEPT !.resultShown = FALSE]
    /\ last' = Step("resetUI", 0, IdleReq)
    /\ UNCHANGED <<now, ticks, table, started, req, client, lastQuery, sweepDone>>
    /\ UNCHANGED payVars
    /\ UNCHANGED <<st, audioVars>>

\* scheduleRecordBtn.onclick, lines 464-482; the button is in scheduleStep2
scheduleRecordBtn_onclick ==
    /\ client.modalOpen /\ client.step = 2
    /\ web.scheduleIsRecording => web.pendingS < MaxPending
    /\ IF ~GateAllows(web)
       THEN /\ web' = [web EXCEPT !.allowed = FALSE, !.checkoutOpen = TRUE]
            /\ client' = [client EXCEPT !.modalOpen = FALSE]
       ELSE /\ web' = IF ~web.scheduleIsRecording
                      THEN [web EXCEPT !.allowed = TRUE, !.scheduleIsRecording = TRUE]
                      ELSE [web EXCEPT !.allowed = TRUE, !.scheduleIsRecording = FALSE,
                                       !.pendingS = web.pendingS + 1]
            /\ client' = client
    /\ last' = Step("scheduleRecordBtn_onclick", 0, IdleReq)
    /\ UNCHANGED <<now, ticks, table, started, req, lastQuery, sweepDone>>
    /\ UNCHANGED payVars
    /\ UNCHANGED <<st, audioVars>>

\* uploadScheduleQuestion after its two fetches, lines 492-506
uploadScheduleQuestionResponse ==
    /\ web.pendingS > 0
    /\ \E ok \in BOOLEAN :
          web' = IF ok
                 THEN [updateUsage(web) EXCEPT !.pendingS = web.pendingS - 1]
                 ELSE [web EXCEPT !.pendingS = web.pendingS - 1]
    /\ last' = Step("uploadScheduleQuestionResponse", 0, IdleReq)
    /\ UNCHANGED <<now, ticks, table, started, req, client, lastQuery, sweepDone>>
    /\ UNCHANGED payVars
    /\ UNCHANGED <<st, audioVars>>

\* closeModal('checkoutModal'), lines 522-523
closeCheckoutModal ==
    /\ web.checkoutOpen
    /\ web' = [web EXCEPT !.checkoutOpen = FALSE]
    /\ last' = Step("closeCheckoutModal", 0, IdleReq)
    /\ UNCHANGED <<now, ticks, table, started, req, client, lastQuery, sweepDone>>
    /\ UNCHANGED payVars
    /\ UNCHANGED <<st, audioVars>>

\* ------------------------------------------------------ Streamlit front end
StAllowOffByOne(is_paid, usage_count) == is_paid \/ usage_count <= StFreeLimit

\* `if is_paid or st.session_state.usage_count < 3`, streamlit_app.py line 45
StAllow(is_paid, usage_count) == is_paid \/ usage_count < StFreeLimit

\* what the providers do in a script run: both calls return, or one raises
ProviderOutcomes == {"", "transcription", "translation"}

\* one run of the script, streamlit_app.py lines 28-85: is_paid comes from
\* the query string of the run, usage_count lives in the session state; an
\* exception of a provider ends the run where it is raised
ScriptRun(audio_file, is_paid, raises) ==
    LET allow == audio_file /\ StAllow(is_paid, st.usage_count)
        raised == IF allow THEN raises ELSE ""
    IN /\ st.runs < MaxRuns
       /\ st' = [usage_count |-> IF allow /\ raised = ""
                                 THEN st.usage_count + 1 ELSE st.usage_count,
                 runs |-> st.runs + 1,
                 run |-> [audio |-> audio_file, is_paid |-> is_paid,
                          before |-> st.usage_count,
                          transcribed |-> allow,
                          translated |-> allow /\ raised # "transcription",
                          warning |-> audio_file /\ ~allow,
                          raised |-> raised]]
       /\ last' = Step("ScriptRun", 0, IdleReq)
       /\ UNCHANGED <<now, ticks, table, started, req, client, lastQuery, sweepDone>>
       /\ UNCHANGED payVars
       /\ UNCHANGED <<web, audioVars>>

StreamlitRun ==
    \E audio_file \in BOOLEAN, is_paid \in BOOLEAN, raises \in ProviderOutcomes :
        ScriptRun(audio_file, is_paid, raises)

\* ------------------------------------------------- /create-checkout-session
PlanTypes == {"monthly", "annual", "weekly", "Monthly", ""}

\* price_ids.get(req.plan_type), lines 677-678
SelectedPrice(e, plan_type) ==
    IF plan_type = "monthly" THEN e.STRIPE_MONTHLY_PRICE_ID
    ELSE IF plan_type = "annual" THEN e.STRIPE_ANNUAL_PRICE_ID
    ELSE NoPrice

\* `if not selected_price`
FalsyPrice(price) == price \in {NoPrice, ""}

CheckoutOutcomeUnchecked(price, stripeOk) ==
    [status |-> 200, body |-> IF stripeOk THEN "url" ELSE "error",
     error |-> IF stripeOk THEN "" ELSE "stripe_error", stripeCalled |-> TRUE]

\* lines 679-693: the error payload for an unknown plan, otherwise the
\* Session.create call, whose exception becomes an error payload too
CheckoutOutcome(price, stripeOk) ==
    IF FalsyPrice(price)
    THEN [status |-> 200, body |-> "error", error |-> "Invalid plan type",
          stripeCalled |-> FALSE]
    ELSE [status |-> 200, body |-> IF stripeOk THEN "url" ELSE "error",
          error |-> IF stripeOk THEN "" ELSE "stripe_error", stripeCalled |-> TRUE]

create_checkout_session(plan_type, stripeOk) ==
    /\ lastCheckout' = [plan_type |-> plan_type] @@
                       CheckoutOutcome(SelectedPrice(env, plan_type), stripeOk)
    /\ last' = Step("create_checkout_session", 0, IdleReq)
    /\ UNCHANGED <<now, ticks, table, started, req, client, lastQuery, sweepDone>>
    /\ UNCHANGED <<env, email_signups, lastWebhook>>
    /\ UNCHANGED <<usageVars, audioVars>>

CreateCheckout ==
    \E plan_type \in PlanTypes, stripeOk \in BOOLEAN :
        create_checkout_session(plan_type, stripeOk)

\* ------------------------------------------------------------------ /webhook
EventTypes == {"checkout.session.completed", "invoice.paid"}
Emails == {NoEmail, "", "a@x", "b@x"}
Customers == {"None", "cus_1"}

FalsyEmailNoneOnly(email) == email = NoEmail

\* `if email`
FalsyEmail(email) == email \in {NoEmail, ""}

\* .upsert({...}) on the row of that email
Upsert(t, email, customer) ==
    {row \in t : row.email # email}
        \cup {[email |-> email, is_paid |-> TRUE, stripe_customer_id |-> customer]}

WebhookOutcomeUnverified(signatureOk, type, email, storeOk) ==
    LET reachesUpsert == type = "checkout.session.completed" /\ ~FalsyEmail(email)
    IN [status |-> IF ~signatureOk \/ (reachesUpsert /\ ~storeOk) THEN 400 ELSE 200,
        upserted |-> reachesUpsert /\ storeOk]

\* lines 699-712: construct_event raises on a bad signature before anything
\* else runs; the upsert is reached for a completed checkout with a truthy
\* email; every exception inside the try is answered with 400
WebhookOutcome(signatureOk, type, email, storeOk) ==
    LET reachesUpsert == signatureOk /\ type = "checkout.session.completed"
                            /\ ~FalsyEmail(email)
    IN [status |-> IF ~signatureOk \/ (reachesUpsert /\ ~storeOk) THEN 400 ELSE 200,
        upserted |-> reachesUpsert /\ storeOk]

\* stripe_webhook, lines 696-712
stripe_webhook(signatureOk, type, email, customer, storeOk) ==
    LET out == WebhookOutcome(signatureOk, type, email, storeOk)
    IN /\ email_signups' = IF out.upserted
                           THEN Upsert(email_signups, email, customer)
                           ELSE email_signups
       /\ lastWebhook' = [status |-> out.status,
                          signatureOk |-> signatureOk, type |-> type, email |-> email,
                          upserted |-> out.upserted]
       /\ last' = Step("stripe_webhook", 0, IdleReq)
       /\ UNCHANGED <<now, ticks, table, started, req, client, lastQuery, sweepDone>>
       /\ UNCHANGED <<env, lastCheckout>>
       /\ UNCHANGED <<usageVars, audioVars>>

Webhook ==
    \E signatureOk \in BOOLEAN, type \in EventTypes, email \in Emails,
       customer \in Customers, storeOk \in BOOLEAN :
        stripe_webhook(signatureOk, type, email, customer, storeOk)

\* ------------------------------------------------------------------- clock
Tick ==
    /\ ticks < MaxTicks
    /\ \E d \in {1, RetentionTicks} : now' = now + d
    /\ ticks' = ticks + 1
    /\ last' = Step("Tick", 0, IdleReq)
    /\ UNCHANGED <<table, started, req, client, lastQuery, sweepDone>>
    /\ UNCHANGED payVars
    /\ UNCHANGED <<usageVars, audioVars>>

\* ----------------------------------------------------------- specifications
\* Concurrent uploads against the session store, with the clock.
Next ==
    \/ \E r \in Reqs : ApiUpload(r)
    \/ \E r \in Reqs : DeleteOld(r)
    \/ \E r \in Reqs : Sweep(r)
    \/ \E r \in Reqs : Insert(r)
    \/ Tick

Spec == Init /\ [][Next]_vars

\* Lookups against the session store: uploads one at a time, the clock, and
\* /query-schedule between any two store calls.
QueryNext ==
    \/ ApiUpload(1)
    \/ DeleteOld(1)
    \/ Sweep(1)
    \/ Insert(1)
    \/ Tick
    \/ QuerySchedule

QuerySpec == Init /\ [][QueryNext]_vars

\* The web client's schedule upload against the server, next to direct
\* callers of the endpoint.
ClientNext ==
    \/ \E r \in Reqs : ApiUpload(r)
    \/ openScheduleModal
    \/ closeModal
    \/ \E r \in Reqs : handlePDFUpload(r)
    \/ \E r \in Reqs : handlePDFUploadResponse(r)
    \/ \E r \in Reqs : handlePDFUploadFailed(r)
    \/ resetSchedule
    \/ PageLoad
    \/ \E r \in Reqs : DeleteOld(r)
    \/ \E r \in Reqs : Sweep(r)
    \/ \E r \in Reqs : Insert(r)
    \/ \E r \in Reqs : DropResponse(r)

ClientSpec == Init /\ [][ClientNext]_vars

\* The payment endpoints.
PayNext ==
    \/ CreateCheckout
    \/ Webhook

PaySpec == PayInit /\ [][PayNext]_vars

\* The usage gate of the web client: both recording flows, the checkout
\* redirect and page loads.
WebNext ==
    \/ recordBtn_onclick
    \/ uploadAudioResponse
    \/ resetUI
    \/ openScheduleModal
    \/ closeModal
    \/ scheduleRecordBtn_onclick
    \/ uploadScheduleQuestionResponse
    \/ closeCheckoutModal
    \/ PageLoad

WebSpec == WebInit /\ [][WebNext]_vars

\* The Streamlit front end: script runs of one session.
StNext == StreamlitRun

StSpec == Init /\ [][StNext]_vars

\* Concurrent /upload requests against the working directory, with the clock.
AudioNext ==
    \/ \E r \in Reqs : UploadAudio(r)
    \/ \E r \in Reqs : WriteTemp(r)
    \/ \E r \in Reqs : TranscribeTemp(r)
    \/ \E r \in Reqs : RemoveTemp(r)
    \/ Tick

AudioSpec == Init /\ [][AudioNext]_vars

\* Two callers replacing the same prior session, their store calls
\* interleaved, with the clock.
ReplaceNext ==
    \/ \E r \in Reqs : ReplaceUpload(r)
    \/ \E r \in Reqs : DeleteOld(r)
    \/ \E r \in Reqs : Sweep(r)
    \/ \E r \in Reqs : Insert(r)
    \/ Tick

ReplaceSpec == ReplaceInit /\ [][ReplaceNext]_vars

\* save_schedule against a table that holds a prior, a young and an expired
\* session: uploads one at a time, with the clock.
SaveNext ==
    \/ ApiUpload(1)
    \/ DeleteOld(1)
    \/ Sweep(1)
    \/ Insert(1)
    \/ Tick

SaveSpec == SaveInit /\ [][SaveNext]_vars

\* ------------------------------------------------------------------ claims
\* the step taken last answered an /upload-schedule request
Answered == last.rq.pc = "done" /\ last.act # "handlePDFUploadResponse"

\* the step taken last returned 200 from /upload-schedule
JustAccepted == Answered /\ last.rq.status = 200

\* the length of the text of a document after trimming
TrimmedLen(doc) == Len(PyStrip(FullText(doc.pages)))

\* C1: when /upload-schedule accepts a document and returns session id S, a
\* get_schedule(S) issued immediately afterwards returns exactly the text
\* extracted from that upload.
C1_RoundTrip ==
    JustAccepted =>
        get_schedule(table, ResponseBody(last.rq).session_id) = {last.rq.extracted_text}

\* C2: the session table holds at most one row per session_id.
C2_UniqueSessionIds ==
    \A a \in table, b \in table : a.session_id = b.session_id => a = b

\* C3: after a completed save_schedule(newId, text, oldId) with a non-empty
\* oldId, get_schedule(oldId) is not-found and get_schedule(newId) is text.
C3_Replacement ==
    (JustAccepted /\ Truthy(last.rq.old_session_id)) =>
        /\ get_schedule(table, last.rq.old_session_id) = {NoneText}
        /\ get_schedule(table, last.rq.session_id) = {last.rq.extracted_text}

C5_ExpiryAtQueryTime ==
    (last.act = "query_schedule" /\ lastQuery.schedule_text # NoneText) =>
        \E row \in SelectBySessionId(table, lastQuery.session_id) :
            /\ row.extracted_text = lastQuery.schedule_text
            /\ row.created_at >= now - RetentionTicks

\* the upload of request rq was of a readable PDF
ReadablePdf(rq) == EndsWith(rq.filename, DotPdf) /\ rq.doc.ok

\* C6: a readable PDF whose trimmed text has fewer than 50 characters gets an
\* error response without a session id and no row is inserted for it; with
\* 50 characters or more the upload passes the gate: it goes on to the store
\* calls and is answered 200 unless one of them raises.
C6_DataQualityGate ==
    /\ \A r \in Reqs :
          (req[r].pc \in {"delete_old", "sweep", "insert"}) =>
              ReadablePdf(req[r]) /\ TrimmedLen(req[r].doc) >= MinTextLen
    /\ (Answered /\ ReadablePdf(last.rq)) =>
          IF TrimmedLen(last.rq.doc) < MinTextLen
          THEN /\ last.act = "upload_schedule"
               /\ last.rq.status >= 400
               /\ ResponseBody(last.rq).session_id = JsUndefined
               /\ \A row \in table : row.uid # last.rq.serial
          ELSE /\ last.act # "upload_schedule"
               /\ last.rq.status = 200 \/ last.rq.detail = "store_error"
    /\ \A row \in table : Len(row.extracted_text) >= MinTextLen

C6_Witness ==
    /\ Answered /\ ReadablePdf(last.rq)
    /\ last.rq.status >= 400
    /\ TrimmedLen(last.rq.doc) = MinTextLen - 1
    /\ \E row \in table : Len(row.extracted_text) = MinTextLen

\* C7: a file name not ending in .pdf and a PDF with too little text are
\* both answered with 400; only a provider or store exception gives 500.
C7_StatusCodes ==
    Answered =>
        /\ ~EndsWith(last.rq.filename, DotPdf) => last.rq.status = 400
        /\ (ReadablePdf(last.rq) /\ TrimmedLen(last.rq.doc) < MinTextLen) =>
                last.rq.status = 400
        /\ last.rq.status = 500 =>
                (~last.rq.doc.ok \/ last.rq.detail = "store_error")

\* C8: after /upload-schedule has answered with an HTTP error,
\* handlePDFUpload shows an error status, stays on the upload step and
\* stores nothing as the current session id.
C8_ClientRejectsFailedUpload ==
    (last.act = "handlePDFUploadResponse" /\ last.rq.status >= 400) =>
        /\ client.uploadStatus = "error"
        /\ client.step # 2
        /\ ~Truthy(client.currentSessionId)
        /\ ~Truthy(client.ls_session)

\* C9: /query-schedule for a session id without a row calls no provider and,
\* the lookup having returned, answers 404; the provider is called only with
\* text that get_schedule returned for that id.
C9_NotFoundNoProvider ==
    /\ (lastQuery.status # 0 /\ ~lastQuery.found) =>
          /\ ~lastQuery.providerCalled
          /\ lastQuery.lookup = "returned" => lastQuery.status = 404
    /\ lastQuery.providerCalled =>
          /\ lastQuery.found
          /\ lastQuery.lookup = "returned"
          /\ lastQuery.schedule_text # NoneText
          /\ last.act = "query_schedule" =>
                lastQuery.schedule_text \in get_schedule(table, lastQuery.session_id)

C9_Witness ==
    /\ lastQuery.status = 404
    /\ lastQuery.session_id.kind = "schedule"
    /\ table # {}

\* C10: /create-checkout-session with a plan_type other than monthly or
\* annual returns an error payload with status 200 and does not call the
\* payment provider.
C10_UnknownPlanNoProviderCall ==
    (lastCheckout.status # 0 /\ lastCheckout.plan_type \notin {"monthly", "annual"}) =>
        /\ lastCheckout.status = 200
        /\ lastCheckout.body = "error"
        /\ ~lastCheckout.stripeCalled

C10_Witness ==
    /\ lastCheckout.status = 200
    /\ lastCheckout.plan_type = "weekly"
    /\ lastCheckout.body = "error"

\* C11: a /webhook request whose signature fails verification is answered
\* with 400 and leaves the entitlement table as it was: the upsert is not
\* reached for that request.
C11_BadSignatureRejected ==
    [][(last'.act = "stripe_webhook" /\ ~lastWebhook'.signatureOk) =>
          /\ lastWebhook'.status = 400
          /\ ~lastWebhook'.upserted
          /\ email_signups' = email_signups]_vars

C11_Witness ==
    /\ last.act = "stripe_webhook"
    /\ ~lastWebhook.signatureOk
    /\ lastWebhook.type = "checkout.session.completed"
    /\ lastWebhook.email = "a@x"
    /\ lastWebhook.status = 400
    /\ \A row \in email_signups : row.email # "a@x"

\* C12: the entitlement table starts empty and a row appears or changes in
\* it only in a /webhook step with a valid signature, the event type
\* checkout.session.completed and that row's email, so an email is paid only
\* if such a request was processed earlier; every row is paid; an event of
\* another type or without an email, its signature valid, writes nothing and
\* is answered with status success.
C12_EntitlementIntegrity ==
    /\ email_signups = {}
    /\ [][/\ \A row \in email_signups' \ email_signups :
               /\ last'.act = "stripe_webhook"
               /\ lastWebhook'.signatureOk
               /\ lastWebhook'.type = "checkout.session.completed"
               /\ lastWebhook'.email = row.email
               /\ row.email \notin {NoEmail, ""}
               /\ row.is_paid
          /\ email_signups \ email_signups' \subseteq
               {row \in email_signups : row.email = lastWebhook'.email}
          /\ (/\ last'.act = "stripe_webhook"
              /\ lastWebhook'.signatureOk
              /\ \/ lastWebhook'.type # "checkout.session.completed"
                 \/ lastWebhook'.email \in {NoEmail, ""}) =>
                   /\ email_signups' = email_signups
                   /\ lastWebhook'.status = 200]_vars

C12_Witness ==
    /\ last.act = "stripe_webhook"
    /\ lastWebhook.signatureOk
    /\ lastWebhook.type = "checkout.session.completed"
    /\ lastWebhook.email = ""
    /\ lastWebhook.status = 200
    /\ \E row \in email_signups : row.email = "b@x" /\ row.is_paid

\* C13: each click on a record button of the web client passes the usage
\* gate exactly when the paid flag is set or usage < FREE_LIMIT.
C13_WebUsageGate ==
    (last.act \in {"recordBtn_onclick", "scheduleRecordBtn_onclick"}) =>
        (web.allowed <=> (web.ls_paid \/ web.usage < FREE_LIMIT))

\* C14: in a Streamlit script run with a recorded audio the transcription
\* call is made exactly when is_paid or usage_count < 3, and the translation
\* call follows it unless the transcription raised; otherwise no provider is
\* called, the limit warning is shown and usage_count is unchanged. Without
\* audio nothing is called.
C14_StreamlitGate ==
    st.runs > 0 =>
        LET run == st.run
            allow == run.is_paid \/ run.before < 3
        IN IF run.audio /\ allow
           THEN /\ run.transcribed
                /\ run.translated <=> run.raised # "transcription"
                /\ ~run.warning
           ELSE /\ ~run.transcribed /\ ~run.translated
                /\ run.warning <=> run.audio
                /\ st.usage_count = run.before

C14_Witness ==
    /\ st.run.audio
    /\ ~st.run.is_paid
    /\ st.run.before = 3
    /\ st.run.warning
    /\ st.usage_count = 3

\* C15: when the payment provider raises in /create-checkout-session or the
\* store raises in the upsert of /webhook, the response has a 5xx status.
C15_ProviderFailure5xx ==
    /\ (lastCheckout.stripeCalled /\ lastCheckout.error = "stripe_error") =>
            lastCheckout.status >= 500
    /\ (/\ lastWebhook.status # 0
        /\ lastWebhook.signatureOk
        /\ lastWebhook.type = "checkout.session.completed"
        /\ lastWebhook.email \notin {NoEmail, ""}
        /\ ~lastWebhook.upserted) =>
            lastWebhook.status >= 500

\* C16: every /upload request is answered with the transcription of its own
\* audio bytes unless the provider raised: no request fails on the temp file
\* or gets another request's audio transcribed.
C16_UploadIndependence ==
    audio.last.pc = "done" =>
        /\ audio.last.raised \in {"", "provider"}
        /\ audio.last.status = 200 =>
              audio.last.transcription = Whisper(audio.last.bytes)

\* C17: once two /upload-schedule requests naming the same prior session
\* have both been answered 200, the prior session is not-found and each
\* returned session id retrieves the text of the upload that returned it.
C17_ConcurrentReplacement ==
    (/\ JustAccepted
     /\ last.rq.old_session_id = PriorRow.session_id
     /\ \E row \in table : row.uid \notin {PriorRow.uid, last.rq.serial}) =>
        /\ get_schedule(table, PriorRow.session_id) = {NoneText}
        /\ \A row \in table :
              row.uid # PriorRow.uid =>
                  get_schedule(table, row.session_id) = {row.extracted_text}

\* C18: when the web client's upload after resetSchedule has succeeded, no
\* row of the session the client held before is left in the table.
C18_EndToEndSupersession ==
    (/\ last.act = "handlePDFUploadResponse"
     /\ last.rq.status = 200
     /\ client.prev.kind = "schedule") =>
        \A row \in table :
            row.session_id = client.prev => row.uid = last.rq.serial

\* the store call of request r raised in the step taken
StoreCallFailed(lst) == lst.rq.pc = "done" /\ lst.rq.detail = "store_error"

\* C19: save_schedule makes its store calls in the order delete-old-session
\* (only with an old id), delete-older-than-72h, insert, one step each; a
\* call that raises changes nothing and undoes nothing of the calls before
\* it, and the request is answered without a session id.
C19_StoreStepOrder ==
    [][/\ \A r \in Reqs :
            /\ (req'[r].pc = "delete_old" /\ req[r].pc # "delete_old") =>
                    req[r].pc = "idle" /\ Truthy(req'[r].old_session_id)
            /\ (req'[r].pc = "sweep" /\ req[r].pc # "sweep") =>
                    \/ req[r].pc = "delete_old"
                    \/ req[r].pc = "idle" /\ ~Truthy(req'[r].old_session_id)
            /\ (req'[r].pc = "insert" /\ req[r].pc # "insert") =>
                    req[r].pc = "sweep"
       /\ (last'.act \in {"DeleteOld", "Sweep", "Insert"} /\ StoreCallFailed(last')) =>
            /\ table' = table
            /\ last'.rq.status = 500
            /\ ResponseBody(last'.rq).session_id = JsUndefined
       /\ (last'.act = "DeleteOld" /\ ~StoreCallFailed(last')) =>
            table' = {row \in table : row.session_id # req[last'.r].old_session_id}
       /\ (last'.act = "Sweep" /\ ~StoreCallFailed(last')) =>
            table' = {row \in table :
                         row.created_at >= now - RetentionHours * 3600 * TicksPerSecond}
       /\ (last'.act = "Insert" /\ ~StoreCallFailed(last')) =>
            /\ table \subseteq table'
            /\ \A row \in table' \ table :
                  /\ row.session_id = last'.rq.session_id
                  /\ row.extracted_text = last'.rq.extracted_text
       /\ last'.act \notin {"DeleteOld", "Sweep", "Insert"} => table' = table]_vars

C19_Witness ==
    /\ last.act = "Insert"
    /\ StoreCallFailed(last)
    /\ Truthy(last.rq.old_session_id)
    /\ SelectBySessionId(table, last.rq.old_session_id) = {}
    /\ last.rq.status = 500

\* C20: an /upload-schedule request that is rejected (a file name not ending
\* in .pdf, unreadable bytes or fewer than 50 characters of text) is answered
\* in the step that receives it, which leaves the session table as it is: no
\* delete of the old session, no sweep, no insert; and no such request ever
\* reaches a store call.
C20_RejectedUploadNoStoreOp ==
    [][/\ (last'.act = "upload_schedule" /\ last'.rq.pc = "done") =>
            /\ last'.rq.status >= 400
            /\ table' = table
            /\ sweepDone' = sweepDone
            /\ req'[last'.r].pc \in {"idle", "done"}
       /\ \A r \in Reqs :
            req'[r].pc \in {"delete_old", "sweep", "insert"} =>
                /\ Len(req'[r].filename) >= 4
                /\ SubSeq(req'[r].filename, Len(req'[r].filename) - 3,
                          Len(req'[r].filename)) = <<".", "p", "d", "f">>
                /\ req'[r].doc.ok
                /\ TrimmedLen(req'[r].doc) >= 50]_vars

C20_Witness ==
    /\ last.act = "upload_schedule"
    /\ last.rq.pc = "done"
    /\ ReadablePdf(last.rq)
    /\ TrimmedLen(last.rq.doc) < MinTextLen
    /\ SelectBySessionId(table, last.rq.old_session_id) # {}
    /\ \E row \in table : row.created_at < now - RetentionTicks

\* C21: a row leaves the session table only in the delete-old step of a
\* save_schedule whose oldId is its session_id, or in a sweep whose 72-hour
\* cutoff is later than its created_at; every other row stays, with the same
\* text.
C21_SaveScheduleFrame ==
    [][/\ \A row \in table \ table' :
            \/ /\ last'.act = "DeleteOld"
               /\ row.session_id = req[last'.r].old_session_id
            \/ /\ last'.act = "Sweep"
               /\ row.created_at < now - RetentionHours * 3600 * TicksPerSecond
       /\ \A row \in table', before \in table :
            row.uid = before.uid => row.extracted_text = before.extracted_text]_vars

C21_Witness ==
    /\ JustAccepted
    /\ last.rq.old_session_id = PriorRow.session_id
    /\ last.rq.swept > 0
    /\ PriorRow \notin table
    /\ ExpiredRow \notin table
    /\ YoungRow \in table
    /\ \E row \in table : row.uid = last.rq.serial

\* C22: in the web client of a user without paid status the usage counter
\* never exceeds FREE_LIMIT.
C22_UsageWithinFreeLimit ==
    ~web.ls_paid => web.usage <= 7

\* C23: once an /upload request is answered, with a transcription or with
\* the provider's exception, the temp file it created is not on disk.
C23_TempFileRemoved ==
    audio.last.pc = "done" =>
        ~(/\ audio.last.temp_filename \in DOMAIN disk
          /\ disk[audio.last.temp_filename].inode = audio.last.serial)

\* C24: every row of the session table has at least 50 characters of text,
\* and /query-schedule answers 404 only when no row has the session id.
C24_NotFoundOnlyWithoutRow ==
    /\ \A row \in table :
          Len(row.extracted_text) >= 50 /\ ~FalsyText(row.extracted_text)
    /\ lastQuery.status = 404 => ~lastQuery.found
    /\ (lastQuery.lookup = "returned" /\ lastQuery.found) =>
          /\ lastQuery.providerCalled
          /\ Len(lastQuery.schedule_text) >= 50

C24_Witness ==
    /\ last.act = "query_schedule"
    /\ lastQuery.found
    /\ lastQuery.status = 200
    /\ Len(lastQuery.schedule_text) = MinTextLen

====
